---- MODULE Spec2Model ----
(***************************************************************************)
(* Model of setup-athanor's src/cli.js: the bootstrapper's main() as a     *)
(* sequential state machine.  Every await of main() and of                  *)
(* downloadAndExtract() is one action: the external operation is issued,   *)
(* its outcome is drawn from the outcomes the collaborator can produce,     *)
(* and the code that follows runs up to the next await.                     *)
(*                                                                         *)
(* Strings that the code inspects are sequences of fragments;               *)
(* String.prototype.includes is the search for a fragment, trim and        *)
(* toLowerCase work character by character.                                 *)
(***************************************************************************)
EXTENDS Integers, Sequences, FiniteSets, TLC

VARIABLES
  pc,                   \* position of main(): the await it is suspended at
  exitReturns,          \* TRUE when process.exit is a stub that returns
  argv,                 \* process.argv
  targetDirectoryName,  \* const targetDirectoryName
  fullTargetPath,       \* const fullTargetPath
  probes,               \* outcome of the git and of the npm probe
  prerequisites,        \* the report of checkPrerequisites()
  statResult,           \* outcome of fs.stat on the target path
  dirExists,            \* the value of directoryExists(fullTargetPath)
  answer,               \* the line handed to the rl.question callback
  confirmed,            \* const confirmed
  cloneError,           \* the error caught from git clone
  error,                \* the error caught from npm ci
  installError,         \* the error caught from npm install
  buildError,           \* the error caught from npm run package
  tempDir,              \* const tempDir of downloadAndExtract
  redirected,           \* the first response was a 301/302
  statuses,             \* statusCode of the responses received, in order
  location,             \* response.headers.location of the redirect
  extractClosed,        \* the extract stream emitted 'close'
  cleanupFailed,        \* fs.rm of the temporary directory rejected
  extractedDir,         \* const extractedDir of downloadAndExtract
  target,               \* what the file system holds at fullTargetPath
  destAtWrite,          \* what it held when the acquisition wrote there
  thrown,               \* the exception pending in downloadAndExtract's try
  calls,                \* external operations issued, in order
  exits,                \* arguments of the process.exit calls, in order
  out,                  \* console lines, in order
  inFlight              \* operations started whose promise has not settled

vars == <<pc, exitReturns, argv, targetDirectoryName, fullTargetPath,
          probes, prerequisites, statResult, dirExists, answer, confirmed,
          cloneError, error, installError, buildError, tempDir, redirected,
          statuses, location, extractClosed, cleanupFailed, extractedDir,
          thrown, calls, exits, out, target, destAtWrite, inFlight>>

\* the records of outcomes, each written by the step that observes it
observed == <<probes, statResult, cloneError, buildError, statuses, location,
              extractClosed, cleanupFailed>>

\* the part of the file system the run shares with other processes
filesystem == <<target, destAtWrite>>

----------------------------------------------------------------------------
(* Bounds of the model. *)

MaxAnswerLen == 3
MaxTextLen == 2

----------------------------------------------------------------------------
(* Values. *)

\* the argument list of a stretch of code that does not call process.exit
NoExit == <<>>
NoError == [cmd |-> "", stderr |-> <<>>, message |-> <<>>]
\* fs.stat not called yet
NoStat == [threw |-> "none", isDirectory |-> FALSE]

ATHANOR_REPO_URL == <<"https://github.com/lacerbi/athanor.git">>
ATHANOR_ZIP_URL == <<"https://github.com/lacerbi/athanor/archive/refs/heads/main.zip">>

DefaultTargetName == "athanor"
LockfileMarker == "package-lock.json"
PermissionMarker == "EACCES"
DestinationMarker == "fatal: destination path"
HostMarker == "Could not resolve host"
HttpMarker == "HTTP"
ExtractedPrefix == "athanor-"

SeqsUpTo(S, n) == UNION {[1..k -> S] : k \in 0..n}

\* the lines a user can type at the prompt
AnswerChars == {" ", "y", "Y", "n", "e", "s"}
Answers == SeqsUpTo(AnswerChars, MaxAnswerLen)

\* positional arguments of the command line
TargetArgs == {"", "my-app"}
ArgLists == {<<"node", "cli.js">>} \cup {<<"node", "cli.js", a>> : a \in TargetArgs}
\* process.argv; defined = FALSE is a process.argv that is not an array
Argvs == {[defined |-> FALSE, list |-> <<>>]} \cup {[defined |-> TRUE, list |-> l] : l \in ArgLists}

\* captured stderr of the child processes (the empty text is a missing
\* or empty stderr)
NpmTexts == SeqsUpTo({LockfileMarker, PermissionMarker, "npm ERR!"}, MaxTextLen)
GitTexts == SeqsUpTo({DestinationMarker, HostMarker, "fatal"}, MaxTextLen)
\* captured stderr of the commands whose catch only prints the error text:
\* empty, or some text, which the code does not classify
FallbackTexts == {<<>>, <<"npm ERR!">>, <<PermissionMarker>>}
BuildTexts == {<<>>, <<"npm ERR!">>}

\* what the mocks of the test suite answer with: the lines of its readline
\* mock (cut to the length bound) and one stderr text for each branch of the
\* catch blocks
MockedAnswers == {<<"y">>, <<"Y">>, <<"n">>, <<>>, <<" ", "y", " ">>}
MockedGitTexts == {<<"fatal", HostMarker>>, <<"fatal", DestinationMarker>>, <<"fatal">>}
MockedNpmTexts == {<<"npm ERR!", LockfileMarker>>, <<"npm ERR!", PermissionMarker>>, <<"npm ERR!">>}

\* the error execa rejects with: message always names the command
ExecaError(cmd, stderr) == [cmd |-> cmd, stderr |-> stderr, message |-> <<"Command failed", cmd>>]

----------------------------------------------------------------------------
(* String helpers. *)

\* String.prototype.includes, on fragments
Includes(text, marker) == \E i \in DOMAIN text : text[i] = marker

IsSpace(c) == c = " "

RECURSIVE TrimStart(_)
TrimStart(s) == IF s # <<>> /\ IsSpace(Head(s)) THEN TrimStart(Tail(s)) ELSE s

RECURSIVE TrimEnd(_)
TrimEnd(s) == IF s # <<>> /\ IsSpace(s[Len(s)]) THEN TrimEnd(SubSeq(s, 1, Len(s) - 1)) ELSE s

\* String.prototype.trim
Trim(s) == TrimEnd(TrimStart(s))

LowerChar(c) == IF c = "Y" THEN "y" ELSE c

\* String.prototype.toLowerCase
ToLowerCase(s) == [i \in DOMAIN s |-> LowerChar(s[i])]

\* the comparison without the trim
IsAffirmative_NoTrim(a) == ToLowerCase(a) = <<"y">>

\* answer.trim().toLowerCase() === 'y'
IsAffirmative(a) == ToLowerCase(Trim(a)) = <<"y">>

\* error.stderr || error.message
ErrorText(e) == IF e.stderr # <<>> THEN e.stderr ELSE e.message

\* a default that applies to a missing argument only
TargetName_ArgumentOnly(list) == IF Len(list) >= 3 THEN list[3] ELSE DefaultTargetName

\* targetDirectoryArg || 'athanor'
TargetName(list) == IF Len(list) >= 3 /\ list[3] # "" THEN list[3] ELSE DefaultTargetName

\* path.resolve(targetDirectoryName), relative to the working directory
Resolve(name) == <<"cwd", name>>

----------------------------------------------------------------------------
(* Records of the observable effects. *)

Call(op, arg, cwd) == [op |-> op, arg |-> arg, cwd |-> cwd]
Line(stream, msg, detail) == [stream |-> stream, msg |-> msg, detail |-> detail]
Log(msg) == Line("log", msg, <<>>)
Err(msg) == Line("error", msg, <<>>)

Ops(cs) == {cs[i].op : i \in DOMAIN cs}
Count(cs, op) == Cardinality({i \in DOMAIN cs : cs[i].op = op})

\* the inputs a run can meet: any of them in the program as shipped, the
\* values of the mocks where process.exit is stubbed
Supplied(any, mocked) == IF exitReturns THEN mocked ELSE any

\* a stretch that records the exit code and lets main() run on
Stretch_KeepsRunning(pre, code, post, cont) ==
  /\ out' = out \o pre \o post
  /\ exits' = IF code = NoExit THEN exits ELSE exits \o code
  /\ pc' = cont

\* process.exit(code) inside a synchronous stretch of main(): pre is printed
\* before the call; when the call returns, post is printed and main()
\* continues at cont.  code is <<1>> or <<0>>, or NoExit for a stretch
\* without an exit call.
Stretch(pre, code, post, cont) ==
  IF code = NoExit
    THEN /\ out' = out \o pre \o post
         /\ exits' = exits
         /\ pc' = cont
    ELSE /\ exits' = exits \o code
         /\ IF exitReturns
              THEN out' = out \o pre \o post /\ pc' = cont
              ELSE out' = out \o pre /\ pc' = "exited"

\* the outer catch of main()
UnexpectedLines ==
  << Err("An unexpected error occurred:"),
     Err("error.stack || error.message"),
     Err("If this persists, please report an issue at the setup-athanor repository.") >>

----------------------------------------------------------------------------
(* Initial state: the process has loaded the module and calls main(). *)

InitWith(stub) ==
  /\ pc = "start"
  /\ exitReturns = stub
  /\ argv \in Argvs
  /\ targetDirectoryName = ""
  /\ fullTargetPath = <<>>
  /\ probes = [git |-> "none", npm |-> "none"]
  /\ prerequisites = [git |-> TRUE, npm |-> TRUE]
  /\ statResult = NoStat
  /\ dirExists = FALSE
  /\ answer = <<>>
  /\ confirmed = FALSE
  /\ cloneError = NoError
  /\ error = NoError
  /\ installError = NoError
  /\ buildError = NoError
  /\ tempDir = <<>>
  /\ redirected = FALSE
  /\ statuses = <<>>
  /\ location = <<>>
  /\ extractClosed = FALSE
  /\ cleanupFailed = FALSE
  /\ extractedDir = <<>>
  /\ thrown = NoError
  /\ calls = <<>>
  /\ exits = <<>>
  /\ out = <<>>
  /\ target = "unknown"
  /\ destAtWrite = "none"
  /\ inFlight = {}

Init == InitWith(FALSE)

----------------------------------------------------------------------------
(* Console lines of main(), by step. *)

PrereqFailedLines ==
  << Err("Prerequisites check failed:"),
     Err("npm is not installed or not in PATH"),
     Err("Please install Node.js and npm, then try again.") >>

DirectoryExistsLines(path) ==
  << Line("error", "Directory already exists:", path),
     Err("Please choose a different directory name or remove the existing directory.") >>

SummaryLines(path) ==
  << Line("log", "Target directory:", path),
     Log("This will:"),
     Log("Clone the Athanor repository"),
     Log("Install all dependencies"),
     Log("Compile a native desktop application"),
     Log("Set up a ready-to-use Athanor installation") >>

CloneStartLines(name) ==
  << Log("1. Cloning Athanor repository..."),
     Line("log", "From:", ATHANOR_REPO_URL),
     Line("log", "To: ./", <<name>>),
     Log("This may take a moment...") >>

DownloadStartLines(name) ==
  << Log("Git not found on your system."),
     Log("For better version control support, consider installing Git."),
     Log("Proceeding with ZIP download instead..."),
     Log("1. Downloading Athanor repository (ZIP)..."),
     Line("log", "From:", ATHANOR_ZIP_URL),
     Line("log", "To: ./", <<name>>),
     Log("Downloading and extracting...") >>

InstallStartLines ==
  << Log("2. Installing dependencies..."),
     Log("Running npm ci in the cloned directory"),
     Log("This may take several minutes...") >>

CompileStartLines ==
  << Log("3. Compiling Athanor application..."),
     Log("Building native desktop application"),
     Log("This may take several minutes...") >>

\* a classification that tests the host marker before the destination marker
CloneFailedLines_HostFirst(e) ==
  <<Err("Failed to clone repository")>> \o
  ( IF e.stderr # <<>> /\ Includes(e.stderr, HostMarker)
      THEN <<Err("Network error: Unable to reach GitHub."),
             Err("Please check your internet connection.")>>
    ELSE IF e.stderr # <<>> /\ Includes(e.stderr, DestinationMarker)
      THEN <<Err("The target directory already exists.")>>
    ELSE <<Line("error", "Git error:", ErrorText(e))>> )

\* the catch of the git clone try: classification of the clone failure
CloneFailedLines(e) ==
  <<Err("Failed to clone repository")>> \o
  ( IF e.stderr # <<>> /\ Includes(e.stderr, DestinationMarker)
      THEN <<Err("The target directory already exists.")>>
    ELSE IF e.stderr # <<>> /\ Includes(e.stderr, HostMarker)
      THEN <<Err("Network error: Unable to reach GitHub."),
             Err("Please check your internet connection.")>>
    ELSE <<Line("error", "Git error:", ErrorText(e))>> )

\* the catch of the downloadAndExtract try
DownloadFailedLines(e) ==
  <<Err("Failed to download repository")>> \o
  ( IF Includes(e.message, HttpMarker)
      THEN <<Err("Network error: Unable to reach GitHub."),
             Err("Please check your internet connection.")>>
    ELSE <<Line("error", "Download error:", e.message)>> )

----------------------------------------------------------------------------
(* main(): argument parsing, prerequisite probes, directory check, prompt. *)

\* a main() without the outer try: the exception rejects its promise
OuterCatch_Rethrows(pre) ==
  /\ out' = out \o pre
  /\ exits' = exits
  /\ pc' = "rejected"

\* the outer catch of main(), after the lines pre printed inside the try:
\* report the unexpected error and exit
OuterCatch(pre) == Stretch(pre \o UnexpectedLines, <<1>>, <<>>, "returned")

\* the operation main() awaits at a position; the promise around the two
\* GETs and the extraction is one awaited operation
OperationAt(p) ==
  CASE p = "probeGit" -> {"git --version"}
    [] p = "probeNpm" -> {"npm --version"}
    [] p = "stat" -> {"stat"}
    [] p = "prompt" -> {"question"}
    [] p = "clone" -> {"git clone"}
    [] p = "mkdtemp" -> {"mkdtemp"}
    [] p \in {"get1", "get2", "extracting", "stalled"} -> {"fetch"}
    [] p = "readdir" -> {"readdir"}
    [] p = "rename" -> {"rename"}
    [] p = "cleanup" -> {"rm"}
    [] p = "npmci" -> {"npm ci"}
    [] p = "npminstall" -> {"npm install"}
    [] p = "package" -> {"npm run package"}
    [] OTHER -> {}

\* a checkPrerequisites() that starts both probes before awaiting either
Await_ProbesTogether(from, to) ==
  IF to = "probeGit" THEN {"git --version", "npm --version"}
  ELSE IF OperationAt(from) = OperationAt(to) THEN inFlight
  ELSE (inFlight \ OperationAt(from)) \cup OperationAt(to)

\* a step of main() from one await to the next: the awaited promise has
\* settled, and the operation of the next await is started
Await(from, to) ==
  IF OperationAt(from) = OperationAt(to) THEN inFlight
  ELSE (inFlight \ OperationAt(from)) \cup OperationAt(to)

\* main() up to the first await: banner, arguments, 'Checking prerequisites'
Start ==
  /\ pc = "start"
  /\ IF argv.defined
       THEN /\ targetDirectoryName' = TargetName(argv.list)
            /\ fullTargetPath' = Resolve(TargetName(argv.list))
            /\ Stretch(<<Log("Athanor Setup Bootstrapper"), Log("Checking prerequisites...")>>,
                       NoExit, <<>>, "probeGit")
       ELSE \* process.argv[2] throws: the outer catch reports and exits
            /\ UNCHANGED <<targetDirectoryName, fullTargetPath>>
            /\ OuterCatch(<<Log("Athanor Setup Bootstrapper")>>)
  /\ UNCHANGED <<exitReturns, argv, prerequisites, dirExists, answer, confirmed,
                 error, installError, tempDir, redirected, extractedDir, thrown,
                 calls>>
  /\ UNCHANGED observed
  /\ UNCHANGED filesystem
  /\ inFlight' = Await(pc, pc')

ProbeOutcome(ok) == IF ok THEN "ok" ELSE "failed"

\* a catch that clears the whole report
Probed_AnyFailure(report, tool, ok) ==
  IF ok THEN report ELSE [git |-> FALSE, npm |-> FALSE]

\* try { await execa(tool, ['--version']) } catch { prerequisites[tool] = false }
Probed(report, tool, ok) ==
  IF ok THEN report ELSE [report EXCEPT ![tool] = FALSE]

\* checkPrerequisites(): await execa('git', ['--version'])
ProbeGit ==
  /\ pc = "probeGit"
  /\ \E ok \in BOOLEAN :
       /\ probes' = [probes EXCEPT !.git = ProbeOutcome(ok)]
       /\ prerequisites' = Probed(prerequisites, "git", ok)
  /\ calls' = Append(calls, Call("git --version", <<>>, <<>>))
  /\ pc' = "probeNpm"
  /\ UNCHANGED <<exitReturns, argv, targetDirectoryName, fullTargetPath,
                 dirExists, answer, confirmed, error, installError, tempDir,
                 redirected, extractedDir, thrown, exits, out>>
  /\ UNCHANGED <<statResult, cloneError, buildError, statuses, location,
                 extractClosed, cleanupFailed>>
  /\ UNCHANGED filesystem
  /\ inFlight' = Await(pc, pc')

\* the branch with the npm requirement dropped
NpmRequired_Optional(report) ==
  Stretch(<<Log("Prerequisites check passed")>>, NoExit, <<>>, "stat")

\* the branch with the confirmation printed ahead of the test of the report
NpmRequired_ConfirmsFirst(report) ==
  IF ~report.npm
    THEN Stretch(<<Log("Prerequisites check passed")>> \o PrereqFailedLines, <<1>>, <<>>, "stat")
    ELSE Stretch(<<Log("Prerequisites check passed")>>, NoExit, <<>>, "stat")

\* the branch of main() on the report: npm is always required
NpmRequired(report) ==
  IF ~report.npm
    THEN Stretch(PrereqFailedLines, <<1>>, <<Log("Prerequisites check passed")>>, "stat")
    ELSE Stretch(<<Log("Prerequisites check passed")>>, NoExit, <<>>, "stat")

\* checkPrerequisites(): await execa('npm', ['--version']), then main()'s
\* check of the report
ProbeNpm ==
  /\ pc = "probeNpm"
  /\ \E ok \in BOOLEAN :
       /\ probes' = [probes EXCEPT !.npm = ProbeOutcome(ok)]
       /\ prerequisites' = Probed(prerequisites, "npm", ok)
       /\ NpmRequired(Probed(prerequisites, "npm", ok))
  /\ calls' = Append(calls, Call("npm --version", <<>>, <<>>))
  /\ UNCHANGED <<exitReturns, argv, targetDirectoryName, fullTargetPath,
                 dirExists, answer, confirmed, error, installError, tempDir,
                 redirected, extractedDir, thrown>>
  /\ UNCHANGED <<statResult, cloneError, buildError, statuses, location,
                 extractClosed, cleanupFailed>>
  /\ UNCHANGED filesystem
  /\ inFlight' = Await(pc, pc')

\* outcomes of fs.stat on the target path: it resolves with stats of a
\* directory or of something else, or it rejects
StatOutcomes ==
  {[threw |-> "", isDirectory |-> d] : d \in BOOLEAN} \cup
  {[threw |-> c, isDirectory |-> FALSE] : c \in {"ENOENT", "EACCES"}}

\* a check that takes every path that exists for a directory
directoryExists_AnyEntry(stat) == stat.threw = ""

\* a check whose catch answers true
directoryExists_CatchReturnsTrue(stat) == IF stat.threw # "" THEN TRUE ELSE stat.isDirectory

\* directoryExists(path): try { return stats.isDirectory() } catch { return false }
directoryExists(stat) == IF stat.threw # "" THEN FALSE ELSE stat.isDirectory

\* the branch that reports the existing directory and goes on
DirectoryCheck_NoAbort(exists) ==
  IF exists
    THEN Stretch(DirectoryExistsLines(fullTargetPath) \o SummaryLines(fullTargetPath),
                 NoExit, <<>>, "prompt")
    ELSE Stretch(SummaryLines(fullTargetPath), NoExit, <<>>, "prompt")

\* the branch that exits for an existing directory without a report
DirectoryCheck_Silent(exists) ==
  IF exists
    THEN Stretch(<<>>, <<1>>, SummaryLines(fullTargetPath), "prompt")
    ELSE Stretch(SummaryLines(fullTargetPath), NoExit, <<>>, "prompt")

\* the branch of main() on directoryExists, then the summary of the run
DirectoryCheck(exists) ==
  IF exists
    THEN Stretch(DirectoryExistsLines(fullTargetPath), <<1>>,
                 SummaryLines(fullTargetPath), "prompt")
    ELSE Stretch(SummaryLines(fullTargetPath), NoExit, <<>>, "prompt")

\* what the target path holds when fs.stat gives outcome st: nothing, a path
\* that cannot be reached, a directory (empty or not), or something else
TargetsFor(st) ==
  IF st.threw = "ENOENT" THEN {"absent"}
  ELSE IF st.threw # "" THEN {"denied"}
  ELSE IF st.isDirectory THEN {"empty", "nonempty"}
  ELSE {"file"}

\* git clone and fs.rename can create the destination when nothing is there,
\* and both accept an existing empty directory
CanWrite(tg) == tg \in {"absent", "empty"}

\* await directoryExists(fullTargetPath)
Stat ==
  /\ pc = "stat"
  /\ \E st \in StatOutcomes :
       /\ statResult' = st
       /\ target' \in TargetsFor(st)
       /\ dirExists' = directoryExists(st)
       /\ DirectoryCheck(directoryExists(st))
  /\ calls' = Append(calls, Call("stat", fullTargetPath, <<>>))
  /\ UNCHANGED <<exitReturns, argv, targetDirectoryName, fullTargetPath,
                 prerequisites, answer, confirmed, error, installError, tempDir,
                 redirected, extractedDir, thrown>>
  /\ UNCHANGED <<probes, cloneError, buildError, statuses, location,
                 extractClosed, cleanupFailed>>
  /\ UNCHANGED destAtWrite
  /\ inFlight' = Await(pc, pc')

\* another process creates the target directory while the prompt waits for
\* the answer, after the check of main() and before the acquisition
OtherProcessCreates ==
  /\ pc = "prompt"
  /\ target = "absent"
  /\ target' \in {"empty", "nonempty"}
  /\ UNCHANGED <<pc, exitReturns, argv, targetDirectoryName, fullTargetPath,
                 prerequisites, dirExists, answer, confirmed, error, installError,
                 tempDir, redirected, extractedDir, thrown, calls, exits, out,
                 destAtWrite>>
  /\ UNCHANGED observed
  /\ inFlight' = Await(pc, pc')

\* the code after the prompt with a declination treated as a failure
AfterPrompt_DeclineFails(ok) ==
  IF ~ok
    THEN Stretch(<<Log("Installation cancelled.")>>, <<1>>, <<>>, "returned")
  ELSE IF prerequisites.git
    THEN Stretch(CloneStartLines(targetDirectoryName), NoExit, <<>>, "clone")
    ELSE Stretch(DownloadStartLines(targetDirectoryName), NoExit, <<>>, "mkdtemp")

\* the code after the prompt without the branch on the git probe
AfterPrompt_AlwaysClone(ok) ==
  IF ~ok
    THEN Stretch(<<Log("Installation cancelled.")>>, <<0>>, <<>>, "returned")
    ELSE Stretch(CloneStartLines(targetDirectoryName), NoExit, <<>>, "clone")

\* the code after the prompt going straight to the install step
AfterPrompt_SkipsAcquisition(ok) ==
  IF ~ok
    THEN Stretch(<<Log("Installation cancelled.")>>, <<0>>, <<>>, "returned")
    ELSE Stretch(InstallStartLines, NoExit, <<>>, "npmci")

\* the code after the prompt: decline, or start of the acquisition step
AfterPrompt(ok) ==
  IF ~ok
    THEN Stretch(<<Log("Installation cancelled.")>>, <<0>>, <<>>, "returned")
  ELSE IF prerequisites.git
    THEN Stretch(CloneStartLines(targetDirectoryName), NoExit, <<>>, "clone")
    ELSE Stretch(DownloadStartLines(targetDirectoryName), NoExit, <<>>, "mkdtemp")

\* a question callback that resolves without closing the interface
PromptCalls_NeverCloses ==
  << Call("createInterface", <<>>, <<>>),
     Call("question", <<"Do you want to proceed? (y/n) ">>, <<>>) >>

\* readline.createInterface, rl.question, and rl.close() in its callback
PromptCalls ==
  << Call("createInterface", <<>>, <<>>),
     Call("question", <<"Do you want to proceed? (y/n) ">>, <<>>),
     Call("close", <<>>, <<>>) >>

\* await of the rl.question promise: the callback closes the interface and
\* resolves with the comparison of the answer
Prompt ==
  /\ pc = "prompt"
  /\ \E a \in Supplied(Answers, MockedAnswers) :
       /\ answer' = a
       /\ confirmed' = IsAffirmative(a)
       /\ AfterPrompt(IsAffirmative(a))
  /\ calls' = calls \o PromptCalls
  /\ UNCHANGED <<exitReturns, argv, targetDirectoryName, fullTargetPath,
                 prerequisites, dirExists, error, installError, tempDir,
                 redirected, extractedDir, thrown>>
  /\ UNCHANGED observed
  /\ UNCHANGED filesystem
  /\ inFlight' = Await(pc, pc')

\* the catch of the git clone try switching to the archive path
CloneFailed_FallsBack(e) ==
  Stretch(CloneFailedLines(e) \o DownloadStartLines(targetDirectoryName),
          NoExit, <<>>, "mkdtemp")

\* the catch of the git clone try without the exit
CloneFailed_NoExit(e) ==
  Stretch(CloneFailedLines(e) \o InstallStartLines, NoExit, <<>>, "npmci")

\* the catch of the git clone try: report and exit
CloneFailed(e) ==
  Stretch(CloneFailedLines(e), <<1>>, InstallStartLines, "npmci")

\* stderr of a failing git clone: git refuses a destination that exists and
\* is not an empty directory with 'fatal: destination path ...'
CloneFailureTexts(tg) ==
  LET texts == Supplied(GitTexts, MockedGitTexts) IN
    IF tg \in {"file", "nonempty"} THEN {t \in texts : Includes(t, DestinationMarker)}
    ELSE IF tg = "denied" THEN {t \in texts : ~Includes(t, DestinationMarker)}
    ELSE texts

\* await execa('git', ['clone', ATHANOR_REPO_URL, targetDirectoryName])
GitClone ==
  /\ pc = "clone"
  /\ \/ /\ CanWrite(target)
        /\ destAtWrite' = target
        /\ target' = "nonempty"
        /\ Stretch(<<Log("Repository cloned successfully")>> \o InstallStartLines,
                   NoExit, <<>>, "npmci")
        /\ UNCHANGED cloneError
     \/ \E t \in CloneFailureTexts(target) :
          /\ cloneError' = ExecaError("git clone", t)
          /\ CloneFailed(ExecaError("git clone", t))
          /\ UNCHANGED filesystem
  /\ calls' = Append(calls, Call("git clone", ATHANOR_REPO_URL \o <<targetDirectoryName>>, <<>>))
  /\ UNCHANGED <<exitReturns, argv, targetDirectoryName, fullTargetPath,
                 prerequisites, dirExists, answer, confirmed, error, installError, tempDir,
                 redirected, extractedDir, thrown>>
  /\ UNCHANGED <<probes, statResult, buildError, statuses, location,
                 extractClosed, cleanupFailed>>
  /\ inFlight' = Await(pc, pc')

----------------------------------------------------------------------------
(* downloadAndExtract(targetPath): the archive path. *)

TempDirPath == <<"tmp", "athanor-download-XXXXXX">>
Statuses == {200, 301, 302, 404}

\* response.headers.location of a redirect, <<>> for a response without
\* that header (undefined)
NoLocation == <<>>
Locations == {<<"https://codeload.github.com/lacerbi/athanor/zip/refs/heads/main">>,
              NoLocation}

\* messages of the 'error' event of a request: a reset connection, a peer
\* that does not answer in HTTP
IoMessages == {<<"ECONNRESET">>, <<"Parse Error: Expected ", HttpMarker, "/">>}
\* messages of failing filesystem calls and of the extract stream
FsMessages == {<<"ENOSPC: no space left on device">>, <<"invalid signature">>}
\* the error of a failing operation op; the code reads its message only
IoError(op, m) == [cmd |-> op, stderr |-> <<>>, message |-> m]
\* new Error(`Failed to download: HTTP ${statusCode}`)
HttpError(status) == IoError("response", <<"Failed to download: ", HttpMarker, " ", ToString(status)>>)
\* new Error('Could not find extracted Athanor directory')
NotFoundError == IoError("find", <<"Could not find extracted Athanor directory">>)

\* names of the top-level entries of the extracted archive
EntryNames == {<<ExtractedPrefix, "main">>, <<"__MACOSX">>}
EntryLists == SeqsUpTo(EntryNames, 2)

\* item.startsWith('athanor-')
StartsWithPrefix(name) == name # <<>> /\ name[1] = ExtractedPrefix

\* tempContents.find(item => item.startsWith('athanor-')), <<>> for undefined
FindExtracted(entries) ==
  IF \E i \in DOMAIN entries : StartsWithPrefix(entries[i])
    THEN entries[CHOOSE i \in DOMAIN entries :
                   /\ StartsWithPrefix(entries[i])
                   /\ \A j \in 1..(i - 1) : ~StartsWithPrefix(entries[j])]
    ELSE <<>>

\* the catch around downloadAndExtract in main(): report and exit
DownloadCatch(e, warn) ==
  Stretch(warn \o DownloadFailedLines(e), <<1>>, InstallStartLines, "npmci")

\* const tempDir = await fs.mkdtemp(...), outside the try/finally
Mkdtemp ==
  /\ pc = "mkdtemp"
  /\ calls' = Append(calls, Call("mkdtemp", <<"tmp", "athanor-download-">>, <<>>))
  /\ \/ /\ tempDir' = TempDirPath
        /\ pc' = "get1"
        /\ UNCHANGED <<thrown, exits, out>>
     \/ \E m \in FsMessages :
          /\ thrown' = IoError("mkdtemp", m)
          /\ DownloadCatch(IoError("mkdtemp", m), <<>>)
          /\ UNCHANGED tempDir
  /\ UNCHANGED <<exitReturns, argv, targetDirectoryName, fullTargetPath,
                 prerequisites, dirExists, answer, confirmed, error, installError,
                 redirected, extractedDir>>
  /\ UNCHANGED observed
  /\ UNCHANGED filesystem
  /\ inFlight' = Await(pc, pc')

\* the response callback piping every response into the extractor
TerminalResponse_NoStatusCheck(status, get) ==
  /\ thrown' = thrown
  /\ calls' = calls \o <<get, Call("Extract", tempDir, <<>>), Call("pipe", <<>>, <<>>)>>
  /\ pc' = "extracting"

\* the response callback for a terminal response: reject on a status other
\* than 200, else pipe the body into unzipper.Extract
TerminalResponse(status, get) ==
  IF status # 200
    THEN /\ thrown' = HttpError(status)
         /\ calls' = Append(calls, get)
         /\ pc' = "cleanup"
    ELSE /\ thrown' = thrown
         /\ calls' = calls \o <<get, Call("Extract", tempDir, <<>>), Call("pipe", <<>>, <<>>)>>
         /\ pc' = "extracting"

\* the callback of the first GET without the redirect branch
FirstResponse_NoRedirect(status, get) ==
  /\ TerminalResponse(status, get)
  /\ UNCHANGED <<redirected, location>>

\* the callback of the first GET: a 301/302 starts the second GET on
\* response.headers.location, any other response is terminal
FirstResponse(status, get) ==
  IF status = 301 \/ status = 302
    THEN /\ redirected' = TRUE
         /\ \E loc \in Locations : location' = loc
         /\ calls' = Append(calls, get)
         /\ pc' = "get2"
         /\ UNCHANGED thrown
    ELSE /\ TerminalResponse(status, get)
         /\ UNCHANGED <<redirected, location>>

\* https.get(ATHANOR_ZIP_URL, callback)
Get1 ==
  /\ pc = "get1"
  /\ LET get == Call("https.get", ATHANOR_ZIP_URL, <<>>) IN
       \/ \E m \in IoMessages :
            /\ thrown' = IoError("https.get", m)
            /\ calls' = Append(calls, get)
            /\ pc' = "cleanup"
            /\ UNCHANGED <<redirected, location, statuses>>
       \/ \E status \in Statuses :
            /\ statuses' = Append(statuses, status)
            /\ FirstResponse(status, get)
  /\ UNCHANGED <<exitReturns, argv, targetDirectoryName, fullTargetPath,
                 prerequisites, dirExists, answer, confirmed, error, installError, tempDir,
                 extractedDir, exits, out>>
  /\ UNCHANGED <<probes, statResult, cloneError, buildError, extractClosed,
                 cleanupFailed>>
  /\ UNCHANGED filesystem
  /\ inFlight' = Await(pc, pc')

\* a callback of the second GET that follows a further redirect
RedirectResponse_FollowsAgain(status, get) ==
  IF status = 301 \/ status = 302
    THEN /\ calls' = Append(calls, get)
         /\ pc' = "get2"
         /\ UNCHANGED thrown
    ELSE TerminalResponse(status, get)

\* the callback of the second GET: no redirect branch, the same status check
\* and piping as for a first response that is not a redirect
RedirectResponse(status, get) == TerminalResponse(status, get)

\* https.get(response.headers.location, callback).on('error', reject).  With
\* an undefined first argument https.get takes the callback for the options:
\* the request goes to the default host without a response listener, so only
\* its 'error' event can settle the promise
Get2 ==
  /\ pc = "get2"
  /\ LET get == Call("https.get", location, <<>>) IN
       \/ \E m \in IoMessages :
            /\ thrown' = IoError("https.get", m)
            /\ calls' = Append(calls, get)
            /\ pc' = "cleanup"
            /\ UNCHANGED statuses
       \/ /\ location # NoLocation
          /\ \E status \in Statuses :
               /\ statuses' = Append(statuses, status)
               /\ RedirectResponse(status, get)
       \/ /\ location = NoLocation
          /\ calls' = Append(calls, get)
          /\ pc' = "stalled"
          /\ UNCHANGED <<thrown, statuses>>
  /\ UNCHANGED <<exitReturns, argv, targetDirectoryName, fullTargetPath,
                 prerequisites, dirExists, answer, confirmed, error, installError, tempDir,
                 redirected, extractedDir, exits, out>>
  /\ UNCHANGED <<probes, statResult, cloneError, buildError, location,
                 extractClosed, cleanupFailed>>
  /\ UNCHANGED filesystem
  /\ inFlight' = Await(pc, pc')

\* the extract stream emits 'close' (resolve) or 'error' (reject), or the
\* response is cut before its end: the response has no 'error' listener and
\* pipe() does not end the extract stream, so neither event ever comes and
\* the promise stays pending
Extracting ==
  /\ pc = "extracting"
  /\ \/ /\ extractClosed' = TRUE
        /\ pc' = "readdir"
        /\ UNCHANGED thrown
     \/ \E m \in FsMessages :
          /\ thrown' = IoError("Extract", m)
          /\ pc' = "cleanup"
          /\ UNCHANGED extractClosed
     \/ /\ pc' = "stalled"
        /\ UNCHANGED <<thrown, extractClosed>>
  /\ UNCHANGED <<exitReturns, argv, targetDirectoryName, fullTargetPath,
                 prerequisites, dirExists, answer, confirmed, error, installError, tempDir,
                 redirected, extractedDir, calls, exits, out>>
  /\ UNCHANGED <<probes, statResult, cloneError, buildError, statuses, location,
                 cleanupFailed>>
  /\ UNCHANGED filesystem
  /\ inFlight' = Await(pc, pc')

\* the search for the extracted directory without the check of its result
Discover_NoCheck(entries) ==
  /\ extractedDir' = FindExtracted(entries)
  /\ thrown' = thrown
  /\ pc' = "rename"

\* const extractedDir = tempContents.find(...); if (!extractedDir) throw
Discover(entries) ==
  /\ extractedDir' = FindExtracted(entries)
  /\ IF FindExtracted(entries) = <<>>
       THEN thrown' = NotFoundError /\ pc' = "cleanup"
       ELSE thrown' = thrown /\ pc' = "rename"

\* await fs.readdir(tempDir), then the search for the extracted directory
Readdir ==
  /\ pc = "readdir"
  /\ calls' = Append(calls, Call("readdir", tempDir, <<>>))
  /\ \/ \E m \in FsMessages :
          /\ thrown' = IoError("readdir", m)
          /\ pc' = "cleanup"
          /\ UNCHANGED extractedDir
     \/ \E entries \in EntryLists : Discover(entries)
  /\ UNCHANGED <<exitReturns, argv, targetDirectoryName, fullTargetPath,
                 prerequisites, dirExists, answer, confirmed, error, installError, tempDir,
                 redirected, exits, out>>
  /\ UNCHANGED observed
  /\ UNCHANGED filesystem
  /\ inFlight' = Await(pc, pc')

\* await fs.rename(extractedPath, targetPath)
Rename ==
  /\ pc = "rename"
  /\ calls' = Append(calls, Call("rename", tempDir \o extractedDir \o <<"->">> \o fullTargetPath, <<>>))
  /\ \/ /\ CanWrite(target)
        /\ destAtWrite' = target
        /\ target' = "nonempty"
        /\ UNCHANGED thrown
     \/ \E m \in FsMessages :
          /\ thrown' = IoError("rename", m)
          /\ UNCHANGED filesystem
  /\ pc' = "cleanup"
  /\ UNCHANGED <<exitReturns, argv, targetDirectoryName, fullTargetPath,
                 prerequisites, dirExists, answer, confirmed, error, installError, tempDir,
                 redirected, extractedDir, exits, out>>
  /\ UNCHANGED observed
  /\ inFlight' = Await(pc, pc')

CleanupWarning == <<Line("warn", "Warning: Could not clean up temporary directory:", tempDir)>>

\* a finally whose failing fs.rm replaces the outcome of the fetch
AfterCleanup_Rethrows(rmOk) ==
  IF ~rmOk
    THEN DownloadCatch(IoError("rm", <<"EBUSY">>), <<>>)
  ELSE IF thrown = NoError
    THEN Stretch(<<Log("Repository downloaded and extracted successfully")>>
                   \o InstallStartLines, NoExit, <<>>, "npmci")
    ELSE DownloadCatch(thrown, <<>>)

\* an archive path that installs with npm install, without npm ci
AfterCleanup_InstallsDirectly(rmOk) ==
  LET warn == IF rmOk THEN <<>> ELSE CleanupWarning IN
    IF thrown = NoError
      THEN Stretch(warn \o <<Log("Repository downloaded and extracted successfully")>>
                     \o InstallStartLines, NoExit, <<>>, "npminstall")
      ELSE DownloadCatch(thrown, warn)

\* the end of the finally block (a failing fs.rm is a warning), then main()
\* after the await of downloadAndExtract, or in its catch
AfterCleanup(rmOk) ==
  LET warn == IF rmOk THEN <<>> ELSE CleanupWarning IN
    IF thrown = NoError
      THEN Stretch(warn \o <<Log("Repository downloaded and extracted successfully")>>
                     \o InstallStartLines, NoExit, <<>>, "npmci")
      ELSE DownloadCatch(thrown, warn)

\* a cleanup that runs at the end of the try block instead of in a finally
Cleanup_OnlyOnSuccess ==
  /\ pc = "cleanup"
  /\ calls' = IF thrown = NoError THEN Append(calls, Call("rm", tempDir, <<>>)) ELSE calls
  /\ \E rmOk \in BOOLEAN :
       /\ cleanupFailed' = (thrown = NoError /\ ~rmOk)
       /\ AfterCleanup(thrown # NoError \/ rmOk)
  /\ UNCHANGED <<exitReturns, argv, targetDirectoryName, fullTargetPath,
                 prerequisites, dirExists, answer, confirmed, error, installError, tempDir,
                 redirected, extractedDir, thrown>>
  /\ UNCHANGED <<probes, statResult, cloneError, buildError, statuses, location,
                 extractClosed>>
  /\ UNCHANGED filesystem
  /\ inFlight' = Await(pc, pc')

\* finally: await fs.rm(tempDir, {recursive: true, force: true})
Cleanup ==
  /\ pc = "cleanup"
  /\ calls' = Append(calls, Call("rm", tempDir, <<>>))
  /\ \E rmOk \in BOOLEAN :
       /\ cleanupFailed' = ~rmOk
       /\ AfterCleanup(rmOk)
  /\ UNCHANGED <<exitReturns, argv, targetDirectoryName, fullTargetPath,
                 prerequisites, dirExists, answer, confirmed, error, installError, tempDir,
                 redirected, extractedDir, thrown>>
  /\ UNCHANGED <<probes, statResult, cloneError, buildError, statuses, location,
                 extractClosed>>
  /\ UNCHANGED filesystem
  /\ inFlight' = Await(pc, pc')

----------------------------------------------------------------------------
(* main(): dependency installation, compilation, success report. *)

\* a catch that takes every npm ci failure for a lockfile problem
InstallFailureKind_AlwaysLockfile(e) == "lockfile"

\* the if-chain of the npm ci catch on error.stderr
InstallFailureKind(e) ==
  IF e.stderr # <<>> /\ Includes(e.stderr, LockfileMarker) THEN "lockfile"
  ELSE IF e.stderr # <<>> /\ Includes(e.stderr, PermissionMarker) THEN "permission"
  ELSE "generic"

\* the catch of the npm ci try without the fallback
NpmCiFailed_NoFallback(e) ==
  Stretch(<<Err("Failed to install dependencies"),
            Line("error", "npm error:", ErrorText(e))>>,
          <<1>>, CompileStartLines, "package")

\* the catch of the npm ci try retrying unclassified failures as well
NpmCiFailed_RetryGeneric(e) ==
  IF InstallFailureKind(e) = "permission"
    THEN Stretch(<<Err("Failed to install dependencies"), Err("Permission denied error.")>>,
                 <<1>>, CompileStartLines, "package")
    ELSE Stretch(<<Err("Failed to install dependencies"),
                   Err("Attempting to use npm install instead...")>>,
                 NoExit, <<>>, "npminstall")

\* the catch of the npm ci try, up to the fallback's await or the exit
NpmCiFailed(e) ==
  LET heading == <<Err("Failed to install dependencies")>> IN
    CASE InstallFailureKind(e) = "lockfile" ->
           Stretch(heading \o <<Err("Missing or invalid package-lock.json file."),
                                Err("Attempting to use npm install instead...")>>,
                   NoExit, <<>>, "npminstall")
      [] InstallFailureKind(e) = "permission" ->
           Stretch(heading \o <<Err("Permission denied error."),
                                Err("You may need to fix npm permissions or use a Node version manager.")>>,
                   <<1>>, CompileStartLines, "package")
      [] OTHER ->
           Stretch(heading \o <<Line("error", "npm error:", ErrorText(e))>>,
                   <<1>>, CompileStartLines, "package")

\* await execa('npm', ['ci'], {cwd: fullTargetPath, ...})
NpmCi ==
  /\ pc = "npmci"
  /\ calls' = Append(calls, Call("npm ci", <<>>, fullTargetPath))
  /\ \/ /\ Stretch(<<Log("Dependencies installed successfully")>> \o CompileStartLines,
                   NoExit, <<>>, "package")
        /\ UNCHANGED error
     \/ \E t \in Supplied(NpmTexts, MockedNpmTexts) :
          /\ error' = ExecaError("npm ci", t)
          /\ NpmCiFailed(ExecaError("npm ci", t))
  /\ UNCHANGED <<exitReturns, argv, targetDirectoryName, fullTargetPath,
                 prerequisites, dirExists, answer, confirmed, installError, tempDir,
                 redirected, extractedDir, thrown>>
  /\ UNCHANGED observed
  /\ UNCHANGED filesystem
  /\ inFlight' = Await(pc, pc')

\* the catch of the fallback printing the npm ci error
FallbackReport_Primary(primary, fallback) == ErrorText(primary)

\* the text printed by the catch of the fallback
FallbackReport(primary, fallback) == ErrorText(fallback)

\* await execa('npm', ['install'], {cwd: fullTargetPath, ...})
NpmInstall ==
  /\ pc = "npminstall"
  /\ calls' = Append(calls, Call("npm install", <<>>, fullTargetPath))
  /\ \/ /\ Stretch(<<Log("Dependencies installed successfully (using npm install)")>>
                     \o CompileStartLines, NoExit, <<>>, "package")
        /\ UNCHANGED installError
     \/ \E t \in FallbackTexts :
          /\ installError' = ExecaError("npm install", t)
          /\ Stretch(<<Err("npm install also failed:"),
                       Line("error", "", FallbackReport(error, ExecaError("npm install", t)))>>,
                     <<1>>, CompileStartLines, "package")
  /\ UNCHANGED <<exitReturns, argv, targetDirectoryName, fullTargetPath,
                 prerequisites, dirExists, answer, confirmed, error, tempDir,
                 redirected, extractedDir, thrown>>
  /\ UNCHANGED observed
  /\ UNCHANGED filesystem
  /\ inFlight' = Await(pc, pc')

Platforms == {"darwin", "win32", "linux"}

\* Step 4: success message and the platform's instructions
SuccessLines(platform) ==
  << Log("Success! Athanor has been compiled and is ready to use!"),
     Line("log", "Location:", fullTargetPath),
     Log("Your compiled Athanor application is ready:") >> \o
  ( CASE platform = "darwin" ->
           << Line("log", "Open: /out/Athanor-darwin-*/Athanor.app", <<targetDirectoryName>>),
              Log("macOS Users - Important:") >>
      [] platform = "win32" ->
           << Line("log", "Run: \\out\\Athanor-win32-*\\Athanor.exe", <<targetDirectoryName>>) >>
      [] OTHER ->
           << Line("log", "Run: /out/Athanor-linux-*/Athanor", <<targetDirectoryName>>) >> )

CompileFailedLines(e) ==
  << Err("Failed to compile application"),
     Line("error", "Build error:", ErrorText(e)),
     Err("To try again manually:"),
     Line("error", "cd", <<targetDirectoryName>>),
     Err("npm run package") >>

\* the catch of the compile try going on to the success report
CompileFailed_Ignored(e, platform) ==
  Stretch(CompileFailedLines(e) \o SuccessLines(platform), NoExit, <<>>, "done")

\* the catch of the compile try running the command again
CompileFailed_Retries(e, platform) ==
  Stretch(CompileFailedLines(e), NoExit, <<>>, "package")

\* the catch of the compile try: report and exit
CompileFailed(e, platform) ==
  Stretch(CompileFailedLines(e), <<1>>, SuccessLines(platform), "done")

\* await execa('npm', ['run', 'package'], {cwd: fullTargetPath, ...})
NpmRunPackage ==
  /\ pc = "package"
  /\ calls' = Append(calls, Call("npm run package", <<>>, fullTargetPath))
  /\ \E platform \in Platforms :
       \/ /\ Stretch(<<Log("Application compiled successfully")>> \o SuccessLines(platform),
                     NoExit, <<>>, "done")
          /\ UNCHANGED buildError
       \/ \E t \in BuildTexts :
            /\ buildError' = ExecaError("npm run package", t)
            /\ CompileFailed(ExecaError("npm run package", t), platform)
  /\ UNCHANGED <<exitReturns, argv, targetDirectoryName, fullTargetPath,
                 prerequisites, dirExists, answer, confirmed, error, installError, tempDir,
                 redirected, extractedDir, thrown>>
  /\ UNCHANGED <<probes, statResult, cloneError, statuses, location,
                 extractClosed, cleanupFailed>>
  /\ UNCHANGED filesystem
  /\ inFlight' = Await(pc, pc')

----------------------------------------------------------------------------

Next ==
  \/ Start
  \/ ProbeGit
  \/ ProbeNpm
  \/ Stat
  \/ OtherProcessCreates
  \/ Prompt
  \/ GitClone
  \/ Mkdtemp
  \/ Get1
  \/ Get2
  \/ Extracting
  \/ Readdir
  \/ Rename
  \/ Cleanup
  \/ NpmCi
  \/ NpmInstall
  \/ NpmRunPackage

\* the program as shipped: process.exit ends the process
Spec == Init /\ [][Next]_vars

\* the program under the test suite: process.exit is replaced by a function
\* that returns, so main() runs on after each exit call
InitStubbed == InitWith(TRUE)
SpecStubbed == InitStubbed /\ [][Next]_vars

----------------------------------------------------------------------------
(* Observations used by the properties. *)

Issued(op) == op \in Ops(calls)
AcquisitionOps == {"git clone", "mkdtemp", "https.get", "rename"}
InstallOps == {"npm ci", "npm install", "npm run package"}
PromptOps == {"createInterface", "question"}
NoneIssued(ops) == Ops(calls) \cap ops = {}

\* the process ended through process.exit(code), its only exit call
ExitedWith(code) == pc = "exited" /\ exits = <<code>>

NpmProbeFailed == Issued("npm --version") /\ ~prerequisites.npm
GitProbeFailed == Issued("git --version") /\ ~prerequisites.git
NpmCiFailedWith(marker) == error # NoError /\ Includes(error.stderr, marker)

\* the pcs inside downloadAndExtract, after mkdtemp; at "stalled" the promise
\* it awaits stays pending for ever
FetchPcs == {"get1", "get2", "extracting", "readdir", "rename", "cleanup", "stalled"}
\* downloadAndExtract threw into the catch of main()
DownloadFailed == thrown # NoError /\ pc \notin FetchPcs
\* downloadAndExtract returned
DownloadSucceeded == Issued("rm") /\ thrown = NoError /\ pc \notin FetchPcs
CloneSucceeded == Issued("git clone") /\ cloneError = NoError
InstallSucceeded ==
  \/ Issued("npm ci") /\ error = NoError
  \/ Issued("npm install") /\ installError = NoError

\* the GET requests in the order they were made
Gets == SelectSeq(calls, LAMBDA c : c.op = "https.get")
IsRedirect(status) == status \in {301, 302}
\* the exchange reached a response that is not followed further
HasTerminalStatus ==
  \/ Len(statuses) = 1 /\ ~IsRedirect(statuses[1])
  \/ Len(statuses) = 2
TerminalStatus == statuses[Len(statuses)]

EndsWith(seq, suffix) ==
  /\ Len(suffix) <= Len(seq)
  /\ SubSeq(seq, Len(seq) - Len(suffix) + 1, Len(seq)) = suffix
Printed(line) == \E i \in DOMAIN out : out[i] = line

\* a line that is the letter y in either case between runs of blanks
IsJustY(a) ==
  \E i \in DOMAIN a :
    /\ a[i] \in {"y", "Y"}
    /\ \A j \in DOMAIN a : j # i => a[j] = " "

----------------------------------------------------------------------------
(* Properties of main(). *)

\* C1: when the npm --version probe fails, whatever the git probe returned,
\* the run ends with exit code 1 and no git clone, no archive download and no
\* npm ci / npm install is invoked.
C1_NpmMissingAborts ==
  NpmProbeFailed =>
    /\ ExitedWith(1)
    /\ NoneIssued(AcquisitionOps \cup {"npm ci", "npm install"})

C1_Witness == NpmProbeFailed /\ GitProbeFailed /\ pc = "exited"

\* C2: when directoryExists(fullTargetPath) returns true the run ends with
\* exit code 1 and neither the prompt nor any acquisition call occurs.
C2_ExistingDirectoryAborts ==
  dirExists =>
    /\ ExitedWith(1)
    /\ NoneIssued(PromptOps \cup AcquisitionOps)

C2_Witness == dirExists /\ Issued("stat") /\ pc = "exited"

\* C3: an answer whose trimmed, lower-cased form is not 'y' ends the run with
\* exit code 0, with no acquisition call and no install call.
C3_DeclineExitsZero ==
  (Issued("question") /\ ~IsJustY(answer)) =>
    /\ ExitedWith(0)
    /\ NoneIssued(AcquisitionOps \cup InstallOps)

C3_Witness == Issued("question") /\ answer = <<"n">> /\ pc = "exited"

\* C4: the gate is affirmative exactly for the answers that are 'y' after
\* trimming and lower-casing: 'y', 'Y' and ' y ' proceed to the acquisition
\* step, every other answer ('yes', 'n', '') is a declination.
C4_AffirmativeExactlyY ==
  Issued("question") =>
    /\ confirmed <=> IsJustY(answer)
    /\ confirmed <=> exits # <<0>>
    /\ answer \in {<<"y">>, <<"Y">>, <<" ", "y", " ">>} => confirmed
    /\ answer \in {<<"y", "e", "s">>, <<"n">>, <<>>} => ~confirmed
    /\ (confirmed /\ NoneIssued(AcquisitionOps)) => pc \in {"clone", "mkdtemp"}

C4_Witness == Issued("question") /\ answer = <<" ", "y", " ">> /\ pc = "clone"

\* C5: when the git probe failed and the npm probe succeeded, a confirmed run
\* acquires through downloadAndExtract and never invokes git clone, whatever
\* the download's outcome.
C5_NoGitUsesArchive ==
  (GitProbeFailed /\ prerequisites.npm /\ confirmed) =>
    /\ ~Issued("git clone")
    /\ pc # "clone"
    /\ pc = "mkdtemp" \/ Issued("mkdtemp")

C5_Witness ==
  GitProbeFailed /\ prerequisites.npm /\ confirmed /\ Issued("rm") /\ thrown # NoError

\* C6: at most one acquisition attempt per run: git clone and
\* downloadAndExtract are never both invoked, each at most once, and a failed
\* git clone does not start the archive download.
C6_OneAcquisition ==
  /\ Count(calls, "git clone") + Count(calls, "mkdtemp") <= 1
  /\ Count(calls, "https.get") <= 2
  /\ Issued("git clone") => (pc # "mkdtemp" /\ NoneIssued({"mkdtemp", "https.get", "readdir", "rename", "rm"}))
  /\ Issued("mkdtemp") => pc # "clone"

C6_Witness ==
  /\ Issued("git clone")
  /\ pc = "exited"
  /\ out[Len(out)].msg = "Git error:"

\* C7: when npm ci fails with the lockfile marker in its error text, npm
\* install is invoked exactly once, as a single retry; when that retry
\* succeeds the run goes on as a successful install.
C7_LockfileRetriesOnce ==
  NpmCiFailedWith(LockfileMarker) =>
    /\ Count(calls, "npm ci") = 1
    /\ \/ pc = "npminstall" /\ ~Issued("npm install")
       \/ pc # "npminstall" /\ Count(calls, "npm install") = 1
    /\ (Issued("npm install") /\ installError = NoError) =>
         \/ pc = "package" /\ exits = <<>>
         \/ Issued("npm run package")

C7_Witness ==
  /\ NpmCiFailedWith(LockfileMarker)
  /\ Issued("npm install")
  /\ installError = NoError
  /\ pc = "done"
  /\ exits = <<>>

\* C8: when the fallback npm install fails too, the run ends with exit code
\* 1, the error text printed is the fallback's (its stderr, or its message),
\* not the npm ci error text, and no further install command is attempted.
C8_FallbackFailureReported ==
  installError # NoError =>
    /\ ExitedWith(1)
    /\ out[Len(out)] = Line("error", "", ErrorText(installError))
    /\ out[Len(out) - 1] = Err("npm install also failed:")
    /\ ErrorText(installError) # ErrorText(error) => out[Len(out)].detail # ErrorText(error)
    /\ Count(calls, "npm ci") = 1
    /\ Count(calls, "npm install") = 1
    /\ ~Issued("npm run package")

C8_Witness ==
  /\ installError # NoError
  /\ installError.stderr = <<>>
  /\ error.stderr # <<>>
  /\ pc = "exited"

\* C9: every npm ci failure whose error text contains the permission marker,
\* also one that contains the lockfile marker as well, ends the run with exit
\* code 1 and npm install is never invoked.
C9_PermissionNeverRetries ==
  NpmCiFailedWith(PermissionMarker) =>
    /\ ExitedWith(1)
    /\ ~Issued("npm install")

----------------------------------------------------------------------------
(* Properties of downloadAndExtract(). *)

\* C11: fs.rename is invoked at most once per fetch, only after the extract
\* stream closed without error on a 200 response and readdir returned an entry
\* starting with 'athanor-'; a fetch failing with a request error, a non-200
\* status, an extraction error or no matching entry ends without any rename.
C11_RenameOnlyAfterDiscovery ==
  /\ Count(calls, "rename") <= 1
  /\ (pc = "rename" \/ Issued("rename")) =>
       /\ extractClosed
       /\ Issued("readdir")
       /\ StartsWithPrefix(extractedDir)
       /\ HasTerminalStatus /\ TerminalStatus = 200
       /\ thrown = NoError \/ thrown.cmd = "rename"
  /\ (thrown # NoError /\ thrown.cmd # "rename") => (~Issued("rename") /\ pc # "rename")

C11_Witness ==
  /\ Issued("rename")
  /\ thrown = NoError
  /\ extractedDir = <<ExtractedPrefix, "main">>
  /\ pc = "cleanup"

\* C12: once mkdtemp has created the temporary directory, fs.rm on it is
\* attempted exactly once before downloadAndExtract returns or throws, on
\* every path; without a temporary directory there is no fs.rm.
C12_CleanupExactlyOnce ==
  /\ Count(calls, "rm") <= 1
  /\ tempDir = <<>> => ~Issued("rm")
  /\ (tempDir # <<>> /\ pc \in FetchPcs) => ~Issued("rm")
  /\ (tempDir # <<>> /\ pc \notin FetchPcs) =>
       /\ Count(calls, "rm") = 1
       /\ calls[CHOOSE i \in DOMAIN calls : calls[i].op = "rm"].arg = tempDir

C12_Witness ==
  /\ thrown # NoError
  /\ thrown.cmd = "rename"
  /\ Count(calls, "rm") = 1
  /\ pc = "exited"

\* C13: a failing fs.rm never changes the outcome of the fetch: after a
\* successful fetch the warning is printed and the run goes on to npm ci
\* without exiting; after a failed fetch the original download error is the
\* one reported and the run ends with exit code 1.
C13_CleanupFailureIsWarning ==
  cleanupFailed =>
    /\ Printed(CleanupWarning[1])
    /\ thrown = NoError =>
         /\ Printed(Log("Repository downloaded and extracted successfully"))
         /\ (pc = "npmci" /\ exits = <<>>) \/ Issued("npm ci")
    /\ thrown # NoError =>
         /\ ExitedWith(1)
         /\ EndsWith(out, CleanupWarning \o DownloadFailedLines(thrown))
         /\ NoneIssued(InstallOps)

C13_Witness ==
  /\ cleanupFailed
  /\ thrown = NoError
  /\ pc = "npmci"

\* C14: when the first GET answers 301 or 302, exactly one further GET is
\* made, to the URL of the Location header; the second response is terminal:
\* a 200 is piped into the extractor; at most two GETs are made per fetch.
C14_RedirectFollowedOnce ==
  /\ Len(Gets) <= 2
  /\ (statuses # <<>> /\ IsRedirect(statuses[1])) =>
       /\ redirected
       /\ location \in Locations
       /\ \/ pc = "get2" /\ Len(Gets) = 1
          \/ pc # "get2" /\ Len(Gets) = 2 /\ Gets[2].arg = location
       /\ Gets[1].arg = ATHANOR_ZIP_URL
       /\ (Len(statuses) = 2 /\ statuses[2] = 200) =>
            /\ Issued("pipe")
            /\ pc \in {"extracting", "stalled"} \/ extractClosed \/ thrown.cmd = "Extract"

C14_Witness ==
  /\ statuses = <<302, 200>>
  /\ Len(Gets) = 2
  /\ Issued("rename")
  /\ thrown = NoError
  /\ pc = "npmci"

\* C15: a terminal response with a status other than 200, first or
\* redirected, makes the fetch fail with the error 'Failed to download: HTTP
\* <status>'; nothing is piped into an extractor and the run ends with exit
\* code 1 without any install command.
C15_Non200FailsFetch ==
  (HasTerminalStatus /\ TerminalStatus # 200) =>
    /\ thrown = HttpError(TerminalStatus)
    /\ Includes(thrown.message, HttpMarker)
    /\ Includes(thrown.message, ToString(TerminalStatus))
    /\ NoneIssued({"Extract", "pipe", "readdir", "rename"})
    /\ NoneIssued(InstallOps)
    /\ pc = "cleanup" \/ ExitedWith(1)

C15_Witness ==
  /\ statuses = <<301, 404>>
  /\ thrown = HttpError(404)
  /\ pc = "exited"

----------------------------------------------------------------------------
(* Properties of main(), continued. *)

\* the process is over: main() went through to the success report,
\* process.exit ended the process, or main() is left at an await that never
\* resumes and the event loop has nothing more to wait for
Terminal == pc \in {"done", "exited", "stalled"}
\* the exit code of the process: the argument of process.exit, or 0 when
\* the process ends by itself
ExitCode == IF exits # <<>> THEN exits[1] ELSE 0
Declined == Issued("question") /\ ~confirmed
AbortCause ==
  \/ NpmProbeFailed
  \/ dirExists
  \/ cloneError # NoError
  \/ DownloadFailed
  \/ error # NoError /\ ~InstallSucceeded
  \/ installError # NoError
  \/ buildError # NoError
  \/ Printed(UnexpectedLines[1])

\* C16: in every terminal state the exit code is 0 or 1; it is 0 only after
\* the success report or after a declination; a run ended by a missing npm, an
\* existing directory, a clone or download failure, an install failure or an
\* unexpected exception has exit code 1.
C16_ExitCodeMapping ==
  /\ Len(exits) <= 1
  /\ exits # <<>> <=> pc = "exited"
  /\ Terminal =>
       /\ ExitCode \in {0, 1}
       /\ ExitCode = 0 <=> (pc = "done" \/ Declined)
       /\ AbortCause <=> ExitCode = 1
       /\ pc = "done" => (Issued("npm run package") /\ ~AbortCause /\ ~Declined)
       /\ Declined => ~AbortCause

\* C17: when git clone rejects or downloadAndExtract throws, the run ends
\* with exit code 1 and no npm ci, npm install or npm run package follows; npm
\* ci is reached only after a successful acquisition.
C17_FailedAcquisitionAborts ==
  /\ (cloneError # NoError \/ DownloadFailed) =>
       /\ ExitedWith(1)
       /\ NoneIssued(InstallOps)
  /\ (pc = "npmci" \/ Issued("npm ci")) => (CloneSucceeded \/ DownloadSucceeded)

C17_Witness ==
  /\ cloneError # NoError
  /\ prerequisites.git
  /\ pc = "exited"

\* C18 as stated: no abort with code 1 occurs after a successful install.
C18_NoAbortAfterInstall ==
  InstallSucceeded => ~ExitedWith(1)

\* C18: after a successful install, clean or through the fallback, the run
\* goes on to npm run package; it reaches the success report without exit when
\* that command succeeds, and it ends with exit code 1 exactly when that
\* command fails.
C18_AbortAfterInstallOnlyFromCompile ==
  InstallSucceeded =>
    \/ pc = "package" /\ exits = <<>> /\ ~Issued("npm run package")
    \/ /\ pc = "done"
       /\ exits = <<>>
       /\ buildError = NoError
       /\ Count(calls, "npm run package") = 1
    \/ /\ ExitedWith(1)
       /\ buildError # NoError
       /\ Count(calls, "npm run package") = 1
       /\ EndsWith(out, CompileFailedLines(buildError))

C18_Witness ==
  /\ InstallSucceeded
  /\ installError = NoError
  /\ Issued("npm install")
  /\ buildError # NoError
  /\ pc = "exited"

----------------------------------------------------------------------------
(* Properties of checkPrerequisites() and directoryExists(). *)

\* C19: checkPrerequisites never throws and returns both flags: git is true
\* iff the git --version probe succeeded, npm is true iff the npm --version
\* probe succeeded, the npm probe runs also after a failed git probe, and
\* neither flag depends on the other probe.
C19_ReportMatchesProbes ==
  /\ Issued("git --version") =>
       /\ probes.git \in {"ok", "failed"}
       /\ prerequisites.git <=> probes.git = "ok"
       /\ pc = "probeNpm" \/ Issued("npm --version")
       /\ ~Printed(UnexpectedLines[1])
  /\ Issued("npm --version") =>
       /\ Issued("git --version")
       /\ probes.npm \in {"ok", "failed"}
       /\ prerequisites.npm <=> probes.npm = "ok"
  /\ ~Issued("npm --version") => prerequisites.npm
  /\ DOMAIN prerequisites = {"git", "npm"}

C19_Witness ==
  /\ probes = [git |-> "ok", npm |-> "failed"]
  /\ prerequisites = [git |-> TRUE, npm |-> FALSE]
  /\ Count(calls, "git --version") = 1
  /\ Count(calls, "npm --version") = 1

\* C20: directoryExists returns true iff fs.stat succeeds and reports a
\* directory; it returns false for a path that is not a directory and for
\* every failure of fs.stat, and it never throws.
C20_DirectoryIffStatDirectory ==
  Issued("stat") =>
    /\ dirExists <=> (statResult.threw = "" /\ statResult.isDirectory)
    /\ statResult.threw # "" => ~dirExists
    /\ (statResult.threw = "" /\ ~statResult.isDirectory) => ~dirExists
    /\ ~Printed(UnexpectedLines[1])
    /\ ~dirExists => (pc = "prompt" \/ Issued("question"))

C20_Witness ==
  /\ Issued("stat")
  /\ statResult = [threw |-> "", isDirectory |-> FALSE]
  /\ ~dirExists
  /\ pc = "prompt"

----------------------------------------------------------------------------
(* Properties of main(): outer handler and order of the steps. *)

\* C21: an exception raised inside main() outside the classified steps, as
\* by reading process.argv[2] of a process.argv that is not an array, is
\* caught by the outer handler: the unexpected-error report is printed, the
\* run ends with exit code 1, and main() never rejects.
C21_UnexpectedErrorCaught ==
  /\ pc # "rejected"
  /\ (~argv.defined /\ pc # "start") =>
       /\ ExitedWith(1)
       /\ EndsWith(out, UnexpectedLines)
       /\ calls = <<>>
  /\ Printed(UnexpectedLines[1]) => ExitedWith(1)

C21_Witness ==
  /\ ~argv.defined
  /\ Printed(UnexpectedLines[1])
  /\ pc = "exited"

\* the external operations in the order of main()'s text
StepOrder ==
  << "git --version", "npm --version", "stat", "createInterface", "question",
     "close", "git clone", "mkdtemp", "https.get", "Extract", "pipe", "readdir",
     "rename", "rm", "npm ci", "npm install", "npm run package" >>
StepOps == {StepOrder[k] : k \in DOMAIN StepOrder}
Rank == [op \in StepOps |-> CHOOSE i \in DOMAIN StepOrder : StepOrder[i] = op]
SuccessReported == Printed(Log("Success! Athanor has been compiled and is ready to use!"))

\* C22: the external operations of a run occur in the fixed order probes,
\* stat, prompt, one acquisition, npm ci, possibly npm install, (compile,)
\* success report: no operation is repeated or taken out of order, each step
\* starts only after the previous one has succeeded, and a run that reports
\* success has gone through every step.
C22_FixedStepOrder ==
  /\ \A i \in DOMAIN calls : calls[i].op \in StepOps
  /\ \A i \in 1..(Len(calls) - 1) :
       /\ Rank[calls[i].op] <= Rank[calls[i + 1].op]
       /\ Rank[calls[i].op] = Rank[calls[i + 1].op] => calls[i].op = "https.get"
  /\ ~(Issued("git clone") /\ Issued("mkdtemp"))
  /\ (pc = "stat" \/ Issued("stat")) =>
       (Issued("git --version") /\ Issued("npm --version") /\ prerequisites.npm)
  /\ (pc = "prompt" \/ Issued("createInterface")) => (Issued("stat") /\ ~dirExists)
  /\ (pc \in {"clone", "mkdtemp"} \/ Issued("git clone") \/ Issued("mkdtemp")) =>
       (Issued("close") /\ confirmed)
  /\ (pc = "npmci" \/ Issued("npm ci")) => (CloneSucceeded \/ DownloadSucceeded)
  /\ (pc = "npminstall" \/ Issued("npm install")) => (Issued("npm ci") /\ error # NoError)
  /\ (pc = "package" \/ Issued("npm run package")) => InstallSucceeded
  /\ SuccessReported <=> pc = "done"
  /\ pc = "done" =>
       /\ Issued("npm run package") /\ buildError = NoError
       /\ Issued("npm ci")
       /\ Issued("git clone") \/ Issued("rename")
       /\ Issued("question") /\ Issued("stat")
       /\ Issued("npm --version") /\ Issued("git --version")

C22_Witness ==
  /\ pc = "done"
  /\ [i \in DOMAIN calls |-> calls[i].op] =
       << "git --version", "npm --version", "stat", "createInterface", "question",
          "close", "git clone", "npm ci", "npm install", "npm run package" >>

----------------------------------------------------------------------------
(* Properties of the run configuration and of the target path. *)

AcquisitionWrote == CloneSucceeded \/ (Issued("rename") /\ thrown = NoError)

\* C24: when the acquisition writes the destination (git clone creating it,
\* fs.rename moving the extracted entry onto it) the target path does not
\* exist as a directory, also when another process created it between the
\* check and the acquisition.
C24_NeverWritesOntoDirectory ==
  /\ destAtWrite \in {"none", "absent"}
  /\ AcquisitionWrote => destAtWrite = "absent"

\* the paths an operation of the run works on
UsesTarget(c) ==
  /\ c.op = "stat" => c.arg = fullTargetPath
  /\ c.op = "git clone" =>
       /\ c.cwd = <<>>
       /\ c.arg = ATHANOR_REPO_URL \o <<targetDirectoryName>>
       /\ <<"cwd", c.arg[Len(c.arg)]>> = fullTargetPath
  /\ c.op = "rename" => EndsWith(c.arg, <<"->">> \o fullTargetPath)
  /\ c.op \in InstallOps => c.cwd = fullTargetPath

\* C25 as stated: the target name is the positional argument, 'athanor' when
\* there is none, and every step works on the same absolute path.
C25_TargetIsArgument ==
  (argv.defined /\ pc # "start") =>
    /\ targetDirectoryName = (IF Len(argv.list) >= 3 THEN argv.list[3] ELSE "athanor")
    /\ fullTargetPath = <<"cwd", targetDirectoryName>>
    /\ \A i \in DOMAIN calls : UsesTarget(calls[i])

\* C25: the target name is the positional argument when it is a non-empty
\* string and 'athanor' when it is missing or empty; the path checked for
\* existence, the destination of the clone or of the rename and the working
\* directory of the npm commands are the same absolute path.
C25_OneTargetEverywhere ==
  (argv.defined /\ pc # "start") =>
    /\ targetDirectoryName =
         (IF Len(argv.list) >= 3 /\ argv.list[3] # "" THEN argv.list[3] ELSE "athanor")
    /\ fullTargetPath = <<"cwd", targetDirectoryName>>
    /\ \A i \in DOMAIN calls : UsesTarget(calls[i])

C25_Witness ==
  /\ argv.list = <<"node", "cli.js", "my-app">>
  /\ targetDirectoryName = "my-app"
  /\ Issued("stat")
  /\ Issued("rename")
  /\ Issued("npm ci")

----------------------------------------------------------------------------
(* Properties of the failure reports. *)

NetworkErrorLines ==
  <<Err("Network error: Unable to reach GitHub."), Err("Please check your internet connection.")>>

\* C26 as stated: two classes of clone failure, the host-resolution marker
\* and everything else.
C26_TwoCloneFailureClasses ==
  cloneError # NoError =>
    /\ ExitedWith(1)
    /\ IF Includes(cloneError.stderr, HostMarker)
         THEN EndsWith(out, <<Err("Failed to clone repository")>> \o NetworkErrorLines)
         ELSE EndsWith(out, <<Err("Failed to clone repository"),
                              Line("error", "Git error:", ErrorText(cloneError))>>)

\* C26: a failed git clone is reported in one of three classes, tested in
\* this order: stderr with 'fatal: destination path' as an existing target
\* directory, stderr with 'Could not resolve host' as a network error, every
\* other failure as a git error with the error text; the run ends with exit
\* code 1 in every class.
C26_ThreeCloneFailureClasses ==
  cloneError # NoError =>
    /\ ExitedWith(1)
    /\ IF Includes(cloneError.stderr, DestinationMarker)
         THEN EndsWith(out, <<Err("Failed to clone repository"),
                              Err("The target directory already exists.")>>)
       ELSE IF Includes(cloneError.stderr, HostMarker)
         THEN EndsWith(out, <<Err("Failed to clone repository")>> \o NetworkErrorLines)
         ELSE EndsWith(out, <<Err("Failed to clone repository"),
                              Line("error", "Git error:", ErrorText(cloneError))>>)

C26_Witness ==
  /\ cloneError # NoError
  /\ Includes(cloneError.stderr, DestinationMarker)
  /\ Includes(cloneError.stderr, HostMarker)
  /\ pc = "exited"

----------------------------------------------------------------------------
(* Properties of the HTTP exchange and of termination. *)

\* C28: a fetch makes at most two GET requests; the response to the second
\* one is never followed: a 301/302 or any other status than 200 on it ends
\* the fetch with the download failure 'HTTP <status>'.
C28_AtMostTwoGets ==
  /\ Len(Gets) <= 2
  /\ Len(statuses) <= Len(Gets)
  /\ pc = "get2" => (Len(Gets) = 1 /\ Len(statuses) = 1)
  /\ (Len(statuses) = 2 /\ statuses[2] # 200) =>
       /\ thrown = HttpError(statuses[2])
       /\ pc = "cleanup" \/ (DownloadFailed /\ ExitedWith(1))
       /\ ~Issued("pipe")

C28_Witness ==
  /\ statuses = <<302, 301>>
  /\ Len(Gets) = 2
  /\ DownloadFailed
  /\ pc = "exited"

\* a step of downloadAndExtract is still to come
FetchPending == pc \in {"get1", "get2", "extracting", "readdir", "rename", "cleanup"}

\* C29: for every outcome of the HTTP exchange (request error, any status, a
\* redirect with or without Location, an error on the response stream while
\* it is piped, an extractor error) downloadAndExtract settles: once no step
\* of it is still to come, the removal of the temporary directory has been
\* attempted and the promise is not left pending.
C29_FetchRejectsOnAnyProblem ==
  (tempDir # <<>> /\ ~FetchPending) =>
    /\ Issued("rm")
    /\ pc # "stalled"

\* C30: a run never stays for ever in an intermediate state: when every
\* operation it started has completed or failed and nothing more can happen,
\* main() has reached the success report or has exited.
C30_EveryRunTerminates ==
  ~ENABLED Next => pc \in {"done", "exited"}

----------------------------------------------------------------------------
(* Properties of the later steps and of the run as a whole. *)

\* C31: npm run package is invoked at most once in a run, in the target
\* directory, and only in a run that was confirmed, acquired the repository
\* and installed the dependencies (by npm ci or by the fallback); when it
\* fails the run ends with exit code 1 and it was the last command, run once.
C31_CompileOnceAfterInstall ==
  /\ Count(calls, "npm run package") <= 1
  /\ (pc = "package" \/ Issued("npm run package")) =>
       /\ confirmed
       /\ CloneSucceeded \/ DownloadSucceeded
       /\ InstallSucceeded
  /\ Issued("npm run package") =>
       calls[Len(calls)] = Call("npm run package", <<>>, fullTargetPath)
  /\ buildError # NoError =>
       /\ ExitedWith(1)
       /\ Count(calls, "npm run package") = 1

C31_Witness ==
  /\ buildError # NoError
  /\ Issued("npm install")
  /\ DownloadSucceeded
  /\ pc = "exited"

\* fs.stat on the target did not report a directory: it rejected, or it
\* resolved with the stats of something else
NotADirectory == Issued("stat") /\ ~(statResult.threw = "" /\ statResult.isDirectory)

\* C32: the pre-check of main() aborts only for a directory: when the target
\* is something else than a directory or fs.stat fails, for whatever reason,
\* no 'already exists' report is printed, the summary is printed and the run
\* goes on to the confirmation prompt; an exit with code 1 then comes from a
\* step after the prompt.
C32_PreCheckBlocksOnlyDirectories ==
  NotADirectory =>
    /\ LET printed == {out[i] : i \in DOMAIN out}
           report == DirectoryExistsLines(fullTargetPath)
           summary == SummaryLines(fullTargetPath)
       IN /\ \A k \in DOMAIN report : report[k] \notin printed
          /\ \A k \in DOMAIN summary : summary[k] \in printed
    /\ pc = "prompt" \/ Issued("question")
    /\ exits # <<>> => Issued("question")

C32_Witness ==
  /\ NotADirectory
  /\ statResult.threw = "EACCES"
  /\ target = "denied"
  /\ Issued("question")
  /\ confirmed

\* the line on the error output that opens the report of the operation whose
\* failure ended the run
FatalHeading ==
  IF NpmProbeFailed THEN PrereqFailedLines[1]
  ELSE IF dirExists THEN DirectoryExistsLines(fullTargetPath)[1]
  ELSE IF cloneError # NoError THEN Err("Failed to clone repository")
  ELSE IF DownloadFailed THEN Err("Failed to download repository")
  ELSE IF installError # NoError THEN Err("npm install also failed:")
  ELSE IF error # NoError /\ ~InstallSucceeded THEN Err("Failed to install dependencies")
  ELSE IF buildError # NoError THEN Err("Failed to compile application")
  ELSE UnexpectedLines[1]

\* C33: no exit with code 1 is silent: when process.exit(1) is called, the
\* error output already holds the heading of the operation that failed
\* (prerequisites, existing directory, clone, download, install, compile,
\* unexpected error), and the last line printed before the exit is a line of
\* the error output.
C33_ExitOneHasDiagnosis ==
  (exits # <<>> /\ exits[1] = 1) =>
    /\ AbortCause
    /\ FatalHeading.stream = "error"
    /\ Printed(FatalHeading)
    /\ out[Len(out)].stream = "error"
    /\ error # NoError => Printed(Err("Failed to install dependencies"))

C33_Witness ==
  /\ ExitedWith(1)
  /\ installError # NoError
  /\ Printed(Err("npm install also failed:"))

\* every line of lines has been printed
AllPrinted(lines) == \A i \in DOMAIN lines : Printed(lines[i])
\* wherever line b stands in the output, line a stands before it
PrintedBefore(a, b) ==
  \A j \in DOMAIN out : out[j] = b => \E i \in 1..(j - 1) : out[i] = a

\* C34: the start message of the prerequisite check, of the acquisition and
\* of the install step is on the output by the time the step's command is
\* awaited; the confirmation of a step is printed only for a command that was
\* run and succeeded (the npm probe, git clone, downloadAndExtract, npm ci, or
\* npm install as the fallback), and it follows the start message.
C34_StartBeforeCommandConfirmAfter ==
  LET ops == Ops(calls)
      printed == {out[i] : i \in DOMAIN out}
      started(lines) == \A i \in DOMAIN lines : lines[i] \in printed
  IN
  /\ (pc \in {"probeGit", "probeNpm"} \/ "git --version" \in ops) =>
       Log("Checking prerequisites...") \in printed
  /\ (pc = "clone" \/ "git clone" \in ops) =>
       started(CloneStartLines(targetDirectoryName))
  /\ (pc = "mkdtemp" \/ "mkdtemp" \in ops) =>
       started(DownloadStartLines(targetDirectoryName))
  /\ (pc = "npmci" \/ "npm ci" \in ops) => started(InstallStartLines)
  /\ Log("Prerequisites check passed") \in printed =>
       /\ "npm --version" \in ops /\ prerequisites.npm
       /\ PrintedBefore(Log("Checking prerequisites..."), Log("Prerequisites check passed"))
  /\ Log("Repository cloned successfully") \in printed =>
       /\ CloneSucceeded
       /\ PrintedBefore(CloneStartLines(targetDirectoryName)[1],
                        Log("Repository cloned successfully"))
  /\ Log("Repository downloaded and extracted successfully") \in printed =>
       /\ DownloadSucceeded
       /\ PrintedBefore(DownloadStartLines(targetDirectoryName)[4],
                        Log("Repository downloaded and extracted successfully"))
  /\ Log("Dependencies installed successfully") \in printed =>
       /\ "npm ci" \in ops /\ error = NoError
       /\ PrintedBefore(InstallStartLines[1], Log("Dependencies installed successfully"))
  /\ Log("Dependencies installed successfully (using npm install)") \in printed =>
       /\ "npm install" \in ops /\ installError = NoError
       /\ PrintedBefore(InstallStartLines[1],
                        Log("Dependencies installed successfully (using npm install)"))

C34_Witness ==
  /\ Printed(Log("Prerequisites check passed"))
  /\ Printed(Log("Repository downloaded and extracted successfully"))
  /\ error # NoError
  /\ Printed(Log("Dependencies installed successfully (using npm install)"))
  /\ ~Printed(Log("Dependencies installed successfully"))

\* the acquisition step succeeded, by either path
Acquired == CloneSucceeded \/ DownloadSucceeded
\* the install and compile commands of the run, in the order they were made
InstallCalls == SelectSeq(calls, LAMBDA c : c.op \in InstallOps)
\* what the steps after the acquisition have done, as a function of where
\* main() stands and of the outcomes of the install and compile commands alone
FallbackTaken == error # NoError /\ InstallFailureKind(error) = "lockfile"
InstalledBy(outcomeCi, outcomeInstall) ==
  \/ pc # "npmci" /\ outcomeCi = NoError
  \/ FallbackTaken /\ pc # "npminstall" /\ outcomeInstall = NoError
ExpectedInstallCalls ==
  (IF pc # "npmci" THEN <<Call("npm ci", <<>>, fullTargetPath)>> ELSE <<>>) \o
  (IF FallbackTaken /\ pc # "npminstall"
     THEN <<Call("npm install", <<>>, fullTargetPath)>> ELSE <<>>) \o
  (IF InstalledBy(error, installError) /\ pc # "package"
     THEN <<Call("npm run package", <<>>, fullTargetPath)>> ELSE <<>>)
ExpectedExits ==
  IF \/ error # NoError /\ ~FallbackTaken
     \/ installError # NoError
     \/ buildError # NoError
    THEN <<1>> ELSE <<>>

\* C35: after a successful acquisition the install and compile commands, the
\* terminal state and the exit code are determined by the target path and by
\* the outcomes of npm ci, npm install and npm run package alone, the same
\* way after a clone and after an archive download: npm ci in the target
\* directory, npm install there exactly after a lockfile failure, npm run
\* package there exactly after an install that succeeded.
C35_InstallIndependentOfAcquisition ==
  Acquired =>
    /\ InstallCalls = ExpectedInstallCalls
    /\ exits = ExpectedExits
    /\ pc \in {"npmci", "npminstall", "package", "done", "exited"}
    /\ pc = "exited" <=> ExpectedExits = <<1>>
    /\ pc = "done" <=>
         (InstalledBy(error, installError) /\ Issued("npm run package")
            /\ buildError = NoError)
    /\ AllPrinted(InstallStartLines)

C35_Witness ==
  /\ DownloadSucceeded
  /\ ~prerequisites.git
  /\ FallbackTaken
  /\ InstallCalls = << Call("npm ci", <<>>, fullTargetPath),
                       Call("npm install", <<>>, fullTargetPath),
                       Call("npm run package", <<>>, fullTargetPath) >>
  /\ pc = "done"

\* C36: the prompt is issued at most once in a run, on one readline
\* interface, and only after the npm probe succeeded and the directory check
\* found no directory; the interface is closed right after the answer, before
\* the acquisition starts or the run ends, and no call after the close reads
\* from the prompt.
C36_PromptOnceThenClosed ==
  /\ Count(calls, "createInterface") <= 1
  /\ Count(calls, "question") <= 1
  /\ Count(calls, "close") <= 1
  /\ Issued("question") =>
       /\ Issued("npm --version") /\ prerequisites.npm
       /\ Issued("stat") /\ ~dirExists
  /\ \A i \in DOMAIN calls :
       calls[i].op = "question" =>
         /\ i > 1 /\ calls[i - 1].op = "createInterface"
         /\ i < Len(calls) /\ calls[i + 1].op = "close"
  /\ \A i \in DOMAIN calls :
       calls[i].op = "close" =>
         \A j \in (i + 1)..Len(calls) : calls[j].op \notin PromptOps \cup {"close"}
  /\ (~NoneIssued(AcquisitionOps \cup InstallOps) \/ pc \in {"clone", "mkdtemp"}) =>
       Issued("close")
  /\ (pc = "exited" /\ Issued("createInterface")) => Issued("close")

C36_Witness ==
  /\ Issued("close")
  /\ Issued("git clone")
  /\ calls[Len(calls)].op = "npm run package"
  /\ pc = "done"

\* C37: the aborted state is absorbing: once process.exit(code) has been
\* called the run stands at its end with that one exit code, and no step of
\* main() is possible any more: no probe, stat, prompt, clone, download,
\* install or compile follows, and no second exit call replaces the code.
C37_AbortedIsAbsorbing ==
  exits # <<>> =>
    /\ Len(exits) = 1
    /\ pc = "exited"
    /\ ~ENABLED Next

C37_Witness ==
  /\ exits = <<1>>
  /\ NpmProbeFailed
  /\ ~Issued("stat")
  /\ ~ENABLED Next

C39_StopsWithoutRelyingOnExit ==
  exits # <<>> =>
    /\ Len(exits) = 1
    /\ inFlight = {}
    /\ pc \in {"returned", "done"}

====
